---- MODULE Spec2Model ----
(***************************************************************************)
(* Model of roads2csv.rs: deduplication of (street name, grid position)   *)
(* records into a BTreeMap of BTreeSets, classification of each street by  *)
(* the number of its positions, and rendering of the two results as text.  *)
(*                                                                         *)
(* A String is a sequence of byte codes (65 = 'A', 9 = tab, ...), so that  *)
(* the derived orderings and the formatting are computed, not assumed.     *)
(* A BTreeMap is the sequence of its entries [key, value] in key order and *)
(* a BTreeSet the sequence of its elements in element order, which is what *)
(* iteration over them yields.                                             *)
(***************************************************************************)
EXTENDS Integers, Sequences, FiniteSets, TLC

VARIABLES streets, idx, roads, processed, unprocessed, pc,
          doneP, delimP, csvP, doneU, delimU, csvU

vars == <<streets, idx, roads, processed, unprocessed, pc,
          doneP, delimP, csvP, doneU, delimU, csvU>>

(***************************************************************************)
(* Bounds of the model                                                     *)
(***************************************************************************)
MaxStreets == 3

MaxRoads == 2

MaxPositions == 2

\* street names "Ba", "a": upper case sorts before lower case
StreetNames == { <<66, 97>>, <<97>> }

\* grid positions A2, A10, I5
GridPositions == { [column |-> <<65>>, row |-> 2],
                   [column |-> <<65>>, row |-> 10],
                   [column |-> <<73>>, row |-> 5] }

\* delimiters: tab, and the two-byte "; "
Delimiters == { <<9>>, <<59, 32>> }

InputStreetValues ==
    { [street_name |-> n, position |-> p] : n \in StreetNames, p \in GridPositions }

RECURSIVE SeqsUpTo(_, _)
SeqsUpTo(S, n) ==
    IF n = 0 THEN { <<>> }
    ELSE LET shorter == SeqsUpTo(S, n - 1)
         IN  shorter \cup { Append(s, x) : s \in shorter, x \in S }

(***************************************************************************)
(* Orderings (derived Ord)                                                 *)
(***************************************************************************)
\* variant: the comparison ignores the case of ASCII letters
RECURSIVE CmpString_IgnoreCase(_, _)
CmpString_IgnoreCase(a, b) ==
    LET lower(c) == IF c \in 65..90 THEN c + 32 ELSE c
    IN  IF a = <<>> /\ b = <<>> THEN "Equal"
        ELSE IF a = <<>> THEN "Less"
        ELSE IF b = <<>> THEN "Greater"
        ELSE IF lower(Head(a)) < lower(Head(b)) THEN "Less"
        ELSE IF lower(Head(a)) > lower(Head(b)) THEN "Greater"
        ELSE CmpString_IgnoreCase(Tail(a), Tail(b))

\* Ord for String: byte-wise lexicographic, a proper prefix is smaller
RECURSIVE CmpString(_, _)
CmpString(a, b) ==
    IF a = <<>> /\ b = <<>> THEN "Equal"
    ELSE IF a = <<>> THEN "Less"
    ELSE IF b = <<>> THEN "Greater"
    ELSE IF Head(a) < Head(b) THEN "Less"
    ELSE IF Head(a) > Head(b) THEN "Greater"
    ELSE CmpString(Tail(a), Tail(b))

\* derived Ord for StreetName(String)
CmpStreetName(a, b) == CmpString(a, b)

\* usize::to_string: decimal digits, most significant first
RECURSIVE UsizeToString(_)
UsizeToString(n) ==
    IF n < 10 THEN << 48 + n >>
    ELSE UsizeToString(n \div 10) \o << 48 + (n % 10) >>

\* Display for GridPosition: "{}{}" of column and row
DisplayGridPosition(p) == p.column \o UsizeToString(p.row)

\* variant: positions compared by their rendered text
CmpGridPosition_ByText(p, q) ==
    CmpString(DisplayGridPosition(p), DisplayGridPosition(q))

\* derived Ord for GridPosition: fields in declaration order, column then row
CmpGridPosition(p, q) ==
    LET c == CmpString(p.column, q.column)
    IN  IF c # "Equal" THEN c
        ELSE IF p.row < q.row THEN "Less"
        ELSE IF p.row > q.row THEN "Greater"
        ELSE "Equal"

(***************************************************************************)
(* BTreeSet<GridPosition> and BTreeMap<StreetName, V>                      *)
(***************************************************************************)
BTreeSetNew == <<>>

\* variant: a list that keeps every inserted element, in order
BTreeSetInsert_NoDedup(set, p) ==
    SelectSeq(set, LAMBDA q : CmpGridPosition(q, p) # "Greater")
    \o << p >>
    \o SelectSeq(set, LAMBDA q : CmpGridPosition(q, p) = "Greater")

\* variant: a new element goes to the end, in insertion order
BTreeSetInsert_Unsorted(set, p) ==
    IF \E i \in 1..Len(set) : CmpGridPosition(set[i], p) = "Equal" THEN set
    ELSE Append(set, p)

\* BTreeSet::insert: no effect when an equal element is present
BTreeSetInsert(set, p) ==
    IF \E i \in 1..Len(set) : CmpGridPosition(set[i], p) = "Equal" THEN set
    ELSE SelectSeq(set, LAMBDA q : CmpGridPosition(q, p) = "Less")
         \o << p >>
         \o SelectSeq(set, LAMBDA q : CmpGridPosition(q, p) = "Greater")

BTreeMapNew == <<>>

BTreeMapContains(map, k) ==
    \E i \in 1..Len(map) : CmpStreetName(map[i].key, k) = "Equal"

BTreeMapGet(map, k) ==
    map[CHOOSE i \in 1..Len(map) : CmpStreetName(map[i].key, k) = "Equal"].value

\* BTreeMap::insert: replaces the value of an equal key, keeps key order
BTreeMapInsert(map, k, v) ==
    SelectSeq(map, LAMBDA e : CmpStreetName(e.key, k) = "Less")
    \o << [key |-> k, value |-> v] >>
    \o SelectSeq(map, LAMBDA e : CmpStreetName(e.key, k) = "Greater")

(***************************************************************************)
(* DeduplicatedRoads::from_streets                                         *)
(***************************************************************************)
\* variant: a new key gets its empty set and the position is not inserted
InsertStreet_EntryOnly(map, input_street) ==
    LET name == input_street.street_name
    IN  IF BTreeMapContains(map, name)
        THEN BTreeMapInsert(map, name,
                BTreeSetInsert(BTreeMapGet(map, name), input_street.position))
        ELSE BTreeMapInsert(map, name, BTreeSetNew)

\* one iteration of the loop: entry(name).or_insert_with(BTreeSet::new).insert(position)
InsertStreet(map, input_street) ==
    LET name == input_street.street_name
        set  == IF BTreeMapContains(map, name) THEN BTreeMapGet(map, name)
                ELSE BTreeSetNew
    IN  BTreeMapInsert(map, name, BTreeSetInsert(set, input_street.position))

RECURSIVE FromStreetsLoop(_, _)
FromStreetsLoop(map, s) ==
    IF s = <<>> THEN map
    ELSE FromStreetsLoop(InsertStreet(map, Head(s)), Tail(s))

FromStreets(s) == FromStreetsLoop(BTreeMapNew, s)

(***************************************************************************)
(* DeduplicatedRoads::process                                              *)
(***************************************************************************)
SingleRect(p) == << "SingleRect", p >>

TwoRect(a, b) == << "TwoRect", a, b >>

\* variant: no arm for length 0, which falls to the last arm
ProcessEntry_NoEmptyCase(acc, entry) ==
    LET road_name     == entry.key
        positions_vec == entry.value
    IN  CASE Len(positions_vec) = 1 ->
                [acc EXCEPT !.processed =
                    BTreeMapInsert(@, road_name, SingleRect(positions_vec[1]))]
          [] Len(positions_vec) = 2 ->
                [acc EXCEPT !.processed =
                    BTreeMapInsert(@, road_name, TwoRect(positions_vec[1], positions_vec[2]))]
          [] OTHER ->
                [acc EXCEPT !.unprocessed =
                    BTreeMapInsert(@, road_name, positions_vec)]

\* variant: the two positions of TwoRect taken in the other order
ProcessEntry_Swapped(acc, entry) ==
    LET road_name     == entry.key
        positions_vec == entry.value
    IN  CASE Len(positions_vec) = 0 -> acc
          [] Len(positions_vec) = 1 ->
                [acc EXCEPT !.processed =
                    BTreeMapInsert(@, road_name, SingleRect(positions_vec[1]))]
          [] Len(positions_vec) = 2 ->
                [acc EXCEPT !.processed =
                    BTreeMapInsert(@, road_name, TwoRect(positions_vec[2], positions_vec[1]))]
          [] OTHER ->
                [acc EXCEPT !.unprocessed =
                    BTreeMapInsert(@, road_name, positions_vec)]

\* body of the for loop: acc holds the two BTreeMaps processed and unprocessed
ProcessEntry(acc, entry) ==
    LET road_name     == entry.key
        positions_vec == entry.value
    IN  CASE Len(positions_vec) = 0 -> acc
          [] Len(positions_vec) = 1 ->
                [acc EXCEPT !.processed =
                    BTreeMapInsert(@, road_name, SingleRect(positions_vec[1]))]
          [] Len(positions_vec) = 2 ->
                [acc EXCEPT !.processed =
                    BTreeMapInsert(@, road_name, TwoRect(positions_vec[1], positions_vec[2]))]
          [] OTHER ->
                [acc EXCEPT !.unprocessed =
                    BTreeMapInsert(@, road_name, positions_vec)]

RECURSIVE ProcessLoop(_, _)
ProcessLoop(acc, entries) ==
    IF entries = <<>> THEN acc
    ELSE ProcessLoop(ProcessEntry(acc, Head(entries)), Tail(entries))

\* the returned pair: each BTreeMap collected, in key order, into a Vec of roads
Process(map) ==
    LET acc == ProcessLoop([processed |-> BTreeMapNew, unprocessed |-> BTreeMapNew], map)
    IN  [processed   |-> [i \in 1..Len(acc.processed) |->
                            [name |-> acc.processed[i].key,
                             position |-> acc.processed[i].value]],
         unprocessed |-> [i \in 1..Len(acc.unprocessed) |->
                            [name |-> acc.unprocessed[i].key,
                             positions |-> acc.unprocessed[i].value]]]

(***************************************************************************)
(* Formatting                                                              *)
(***************************************************************************)
\* Display for StreetName
DisplayStreetName(n) == n

\* Display for FinalizedGridPositon: "{}" or "{}-{}"
DisplayFinalizedGridPositon(f) ==
    IF f[1] = "SingleRect" THEN DisplayGridPosition(f[2])
    ELSE DisplayGridPosition(f[2]) \o << 45 >> \o DisplayGridPosition(f[3])

\* [String]::join(sep)
RECURSIVE Join(_, _)
Join(v, sep) ==
    IF v = <<>> THEN <<>>
    ELSE IF Len(v) = 1 THEN v[1]
    ELSE v[1] \o sep \o Join(Tail(v), sep)

CRLF == << 13, 10 >>

\* Display for ProcessedRoad: "{}\t{}"
DisplayProcessedRoad(r) ==
    DisplayStreetName(r.name) \o << 9 >> \o DisplayFinalizedGridPositon(r.position)

\* Display for UnprocessedRoad: the positions joined by "\t"
DisplayUnprocessedRoad(r) ==
    LET unprocessed_string ==
            Join([j \in 1..Len(r.positions) |-> DisplayGridPosition(r.positions[j])],
                 << 9 >>)
    IN  DisplayStreetName(r.name) \o << 9 >> \o unprocessed_string

\* variant: each road formatted by its own Display, which writes a tab
ProcessedToCsv_Display(rs, delimiter) ==
    Join([i \in 1..Len(rs) |-> DisplayProcessedRoad(rs[i])], CRLF)

\* ProcessedRoadNames::to_csv
ProcessedToCsv(rs, delimiter) ==
    Join([i \in 1..Len(rs) |->
            DisplayStreetName(rs[i].name) \o delimiter
            \o DisplayFinalizedGridPositon(rs[i].position)],
         CRLF)

\* variant: each road formatted by its own Display, which writes tabs
UnprocessedToCsv_Display(rs, delimiter) ==
    Join([i \in 1..Len(rs) |-> DisplayUnprocessedRoad(rs[i])], CRLF)

\* UnprocessedRoadNames::to_csv
UnprocessedToCsv(rs, delimiter) ==
    Join([i \in 1..Len(rs) |->
            LET unprocessed_string ==
                    Join([j \in 1..Len(rs[i].positions) |->
                            DisplayGridPosition(rs[i].positions[j])],
                         delimiter)
            IN  DisplayStreetName(rs[i].name) \o delimiter \o unprocessed_string],
         CRLF)

(***************************************************************************)
(* The pipeline: from_streets, then process, then the two to_csv calls     *)
(***************************************************************************)
NoOutput ==
    /\ processed = <<>> /\ unprocessed = <<>>
    /\ doneP = FALSE /\ delimP = <<>> /\ csvP = <<>>
    /\ doneU = FALSE /\ delimU = <<>> /\ csvU = <<>>

Init ==
    /\ streets \in SeqsUpTo(InputStreetValues, MaxStreets)
    /\ idx = 0
    /\ roads = BTreeMapNew
    /\ pc = "from_streets"
    /\ NoOutput

\* one iteration of `for input_street in streets`
FromStreetsStep ==
    /\ pc = "from_streets"
    /\ idx < Len(streets)
    /\ roads' = InsertStreet(roads, streets[idx + 1])
    /\ idx' = idx + 1
    /\ UNCHANGED <<streets, processed, unprocessed, pc,
                   doneP, delimP, csvP, doneU, delimU, csvU>>

\* Self { roads: deduplicated_names }
FromStreetsReturn ==
    /\ pc = "from_streets"
    /\ idx = Len(streets)
    /\ pc' = "grouped"
    /\ UNCHANGED <<streets, idx, roads, processed, unprocessed,
                   doneP, delimP, csvP, doneU, delimU, csvU>>

DoProcess ==
    /\ pc = "grouped"
    /\ processed' = Process(roads).processed
    /\ unprocessed' = Process(roads).unprocessed
    /\ pc' = "processed"
    /\ UNCHANGED <<streets, idx, roads, doneP, delimP, csvP, doneU, delimU, csvU>>

DoProcessedToCsv ==
    /\ pc = "processed"
    /\ ~doneP
    /\ \E delimiter \in Delimiters :
          /\ csvP' = ProcessedToCsv(processed, delimiter)
          /\ delimP' = delimiter
    /\ doneP' = TRUE
    /\ UNCHANGED <<streets, idx, roads, processed, unprocessed, pc,
                   doneU, delimU, csvU>>

DoUnprocessedToCsv ==
    /\ pc = "processed"
    /\ ~doneU
    /\ \E delimiter \in Delimiters :
          /\ csvU' = UnprocessedToCsv(unprocessed, delimiter)
          /\ delimU' = delimiter
    /\ doneU' = TRUE
    /\ UNCHANGED <<streets, idx, roads, processed, unprocessed, pc,
                   doneP, delimP, csvP>>

Next ==
    \/ FromStreetsStep
    \/ FromStreetsReturn
    \/ DoProcess
    \/ DoProcessedToCsv
    \/ DoUnprocessedToCsv

Spec == Init /\ [][Next]_vars

(***************************************************************************)
(* Values built directly through the public fields: any grouping (a key    *)
(* may hold an empty set), any Vec of ProcessedRoad or of UnprocessedRoad  *)
(***************************************************************************)
RECURSIVE BTreeSetFrom(_)
BTreeSetFrom(S) ==
    IF S = {} THEN BTreeSetNew
    ELSE LET p == CHOOSE x \in S : TRUE
         IN  BTreeSetInsert(BTreeSetFrom(S \ {p}), p)

RECURSIVE BTreeMapFrom(_, _)
BTreeMapFrom(f, keys) ==
    IF keys = {} THEN BTreeMapNew
    ELSE LET k == CHOOSE x \in keys : TRUE
         IN  BTreeMapInsert(BTreeMapFrom(f, keys \ {k}), k, BTreeSetFrom(f[k]))

\* grid positions A2, A10, I5, I10 of the hand-built groupings
GroupingPositions == GridPositions \cup { [column |-> <<73>>, row |-> 10] }

\* street names "B", "Ba", "a" of the hand-built groupings: "B" is a prefix of "Ba"
GroupingNames == StreetNames \cup { <<66>> }

Groupings ==
    { BTreeMapFrom(f, DOMAIN f) :
        f \in UNION { [K -> SUBSET GroupingPositions] : K \in SUBSET GroupingNames } }

\* street names "B", "a" and grid positions A9, I5 of the hand-built roads
RoadNames == { <<66>>, <<97>> }

RoadPositions == { [column |-> <<65>>, row |-> 9], [column |-> <<73>>, row |-> 5] }

FinalizedGridPositons ==
    { SingleRect(p) : p \in RoadPositions }
    \cup { TwoRect(a, b) : a \in RoadPositions, b \in RoadPositions }

ProcessedRoads ==
    { [name |-> n, position |-> f] : n \in RoadNames, f \in FinalizedGridPositons }

UnprocessedRoads ==
    { [name |-> n, positions |-> ps] :
        n \in RoadNames, ps \in SeqsUpTo(RoadPositions, MaxPositions) }

InitGrouping ==
    /\ streets = <<>>
    /\ idx = 0
    /\ roads \in Groupings
    /\ pc = "grouped"
    /\ NoOutput

NextGrouping ==
    \/ DoProcess
    \/ DoProcessedToCsv
    \/ DoUnprocessedToCsv

SpecGrouping == InitGrouping /\ [][NextGrouping]_vars

InitCsv ==
    /\ streets = <<>>
    /\ idx = 0
    /\ roads = BTreeMapNew
    /\ pc = "processed"
    /\ \/ /\ processed \in SeqsUpTo(ProcessedRoads, MaxRoads)
          /\ unprocessed = <<>>
       \/ /\ processed = <<>>
          /\ unprocessed \in SeqsUpTo(UnprocessedRoads, MaxRoads)
    /\ doneP = FALSE /\ delimP = <<>> /\ csvP = <<>>
    /\ doneU = FALSE /\ delimU = <<>> /\ csvU = <<>>

NextCsv ==
    \/ DoProcessedToCsv
    \/ DoUnprocessedToCsv

SpecCsv == InitCsv /\ [][NextCsv]_vars

TypeOK ==
    /\ pc \in {"from_streets", "grouped", "processed"}
    /\ idx \in 0..Len(streets)
    /\ doneP \in BOOLEAN /\ doneU \in BOOLEAN
(***************************************************************************)
(* Vocabulary of the properties, stated without the operators of the model *)
(***************************************************************************)
\* a is before b in byte-wise lexicographic order
StrLess(a, b) ==
    \E k \in 0..Len(a) :
        /\ k <= Len(b)
        /\ \A i \in 1..k : a[i] = b[i]
        /\ \/ k = Len(a) /\ k < Len(b)
           \/ k < Len(a) /\ k < Len(b) /\ a[k + 1] < b[k + 1]

\* p is before q: by column, and for one column by the row as a number
PosLess(p, q) ==
    \/ StrLess(p.column, q.column)
    \/ p.column = q.column /\ p.row < q.row

Range(s) == { s[i] : i \in 1..Len(s) }

NoRepeat(s) == \A i, j \in 1..Len(s) : i # j => s[i] # s[j]

\* the decimal numeral of n, digit by digit from its powers of ten
DecimalText(n) ==
    LET k == CHOOSE d \in 1..9 : n < 10^d /\ (d = 1 \/ n >= 10^(d - 1))
    IN  [i \in 1..k |-> 48 + ((n \div 10^(k - i)) % 10)]

PositionText(p) == p.column \o DecimalText(p.row)

RECURSIVE Concat(_)
Concat(ss) == IF ss = <<>> THEN <<>> ELSE Head(ss) \o Concat(Tail(ss))

\* the lines in order, each but the first preceded by "\r\n"
LinesText(lines) ==
    Concat([i \in 1..Len(lines) |-> IF i = 1 THEN lines[i] ELSE <<13, 10>> \o lines[i]])

\* the elements of a set of positions, or of names, in ascending order
RECURSIVE AscendingPositions(_)
AscendingPositions(S) ==
    IF S = {} THEN <<>>
    ELSE LET m == CHOOSE p \in S : \A q \in S \ {p} : PosLess(p, q)
         IN  << m >> \o AscendingPositions(S \ {m})

RECURSIVE AscendingNames(_)
AscendingNames(S) ==
    IF S = {} THEN <<>>
    ELSE LET m == CHOOSE n \in S : \A o \in S \ {n} : StrLess(n, o)
         IN  << m >> \o AscendingNames(S \ {m})

InputNames(s) == { s[i].street_name : i \in 1..Len(s) }

InputPositions(s, n) == { s[i].position : i \in { j \in 1..Len(s) : s[j].street_name = n } }

InputPairs(s) == { << s[i].street_name, s[i].position >> : i \in 1..Len(s) }

GroupingKeys(m) == { m[i].key : i \in 1..Len(m) }

GroupingPairs(m) ==
    UNION { { << m[i].key, m[i].value[j] >> : j \in 1..Len(m[i].value) } : i \in 1..Len(m) }

\* s with a copy of its i-th record put in after the first j records
WithCopy(s, i, j) == SubSeq(s, 1, j) \o << s[i] >> \o SubSeq(s, j + 1, Len(s))

Permuted(s, f) == [i \in 1..Len(s) |-> s[f[i]]]

Occurrences(rs, n) == Cardinality({ i \in 1..Len(rs) : rs[i].name = n })

(***************************************************************************)
(* C1: the grouping built from the records read so far holds exactly the   *)
(* distinct (street name, position) pairs of those records: its keys are   *)
(* the names that occur, a key's set holds the positions that occur with   *)
(* it, no key and no position of a key is held twice; and a copy of any    *)
(* record, added at the end or anywhere else, leaves the returned grouping *)
(* unchanged.                                                              *)
(***************************************************************************)
C1_ExactlyTheDistinctPairs ==
    LET read == SubSeq(streets, 1, idx)
    IN  pc \in {"from_streets", "grouped"} =>
          /\ GroupingKeys(roads) = InputNames(read)
          /\ GroupingPairs(roads) = InputPairs(read)
          /\ NoRepeat([i \in 1..Len(roads) |-> roads[i].key])
          /\ \A i \in 1..Len(roads) : NoRepeat(roads[i].value)
          /\ pc = "grouped" =>
                \A i \in 1..Len(streets) : \A j \in 0..Len(streets) :
                    FromStreets(WithCopy(streets, i, j)) = roads

C1_Witness ==
    /\ pc = "grouped"
    /\ Len(streets) = 3
    /\ streets[1] = streets[3]
    /\ streets[2].street_name = streets[1].street_name
    /\ streets[2].position # streets[1].position
    /\ Len(roads) = 1 /\ Len(roads[1].value) = 2

(***************************************************************************)
(* C2: every permutation of the input gives the same grouping, and after   *)
(* process() the same processed text and the same unprocessed text, for    *)
(* whichever delimiter to_csv was called with.                             *)
(***************************************************************************)
C2_OrderOfInputIrrelevant ==
    pc \in {"grouped", "processed"} =>
        \A f \in Permutations(1..Len(streets)) :
            LET other  == FromStreets(Permuted(streets, f))
                result == Process(other)
            IN  /\ other = roads
                /\ doneP => ProcessedToCsv(result.processed, delimP) = csvP
                /\ doneU => UnprocessedToCsv(result.unprocessed, delimU) = csvU

C2_Witness ==
    /\ pc = "processed" /\ doneP /\ doneU
    /\ Len(streets) = 3
    /\ NoRepeat(streets)
    /\ StrLess(streets[2].street_name, streets[1].street_name)
    /\ streets[3].street_name = streets[1].street_name
    /\ PosLess(streets[3].position, streets[1].position)
    /\ csvP # <<>>

(***************************************************************************)
(* C3: process() puts every street name whose position set is not empty   *)
(* into exactly one of the two results, once; a street name whose set is   *)
(* empty into neither; and nothing into a result that is not a key.        *)
(***************************************************************************)
C3_ExactlyOneResult ==
    pc = "processed" =>
        /\ \A i \in 1..Len(roads) :
              Occurrences(processed, roads[i].key) + Occurrences(unprocessed, roads[i].key)
                = (IF roads[i].value = <<>> THEN 0 ELSE 1)
        /\ \A j \in 1..Len(processed) : processed[j].name \in GroupingKeys(roads)
        /\ \A j \in 1..Len(unprocessed) : unprocessed[j].name \in GroupingKeys(roads)

C3_Witness ==
    /\ pc = "processed"
    /\ Len(roads) = 3
    /\ roads[1].value = <<>>
    /\ Len(processed) = 1 /\ processed[1].name = roads[2].key
    /\ Len(unprocessed) = 1 /\ unprocessed[1].name = roads[3].key

(***************************************************************************)
(* C4: a street with one position p is a processed road SingleRect(p);     *)
(* with two positions a processed road TwoRect(a, b), a the smaller and b  *)
(* the larger; with three or more an unprocessed road whose positions are  *)
(* all those of the set, each once, in strictly ascending order.           *)
(***************************************************************************)
C4_RoutedBySize ==
    pc = "processed" =>
        \A i \in 1..Len(roads) :
            LET n == roads[i].key
                S == Range(roads[i].value)
            IN  /\ Cardinality(S) = 1 =>
                      \E j \in 1..Len(processed) :
                          /\ processed[j].name = n
                          /\ \E p \in S : processed[j].position = << "SingleRect", p >>
                /\ Cardinality(S) = 2 =>
                      \E j \in 1..Len(processed) :
                          /\ processed[j].name = n
                          /\ \E a, b \in S :
                                /\ PosLess(a, b)
                                /\ processed[j].position = << "TwoRect", a, b >>
                /\ Cardinality(S) >= 3 =>
                      \E j \in 1..Len(unprocessed) :
                          /\ unprocessed[j].name = n
                          /\ unprocessed[j].positions = AscendingPositions(S)

C4_Witness ==
    /\ pc = "processed"
    /\ Len(roads) = 3
    /\ Len(roads[1].value) = 4
    /\ Len(roads[2].value) = 2
    /\ Len(roads[3].value) = 1
    /\ Len(processed) = 2 /\ Len(unprocessed) = 1

(***************************************************************************)
(* C5: both results of process() are in strictly ascending order of street *)
(* name, byte by byte (upper case before lower case, a prefix first), so   *)
(* neither holds a street name twice.                                      *)
(***************************************************************************)
C5_AscendingStreetNames ==
    pc = "processed" =>
        /\ \A i, j \in 1..Len(processed) :
              i < j => StrLess(processed[i].name, processed[j].name)
        /\ \A i, j \in 1..Len(unprocessed) :
              i < j => StrLess(unprocessed[i].name, unprocessed[j].name)

C5_Witness ==
    /\ pc = "processed"
    /\ Len(processed) = 3
    /\ processed[1].name = <<66>> /\ processed[3].name = <<97>>
\* text holds line as one whole line: from the start or a "\r\n" to a "\r\n" or the end
HasLine(text, line) ==
    \E o \in 0..(Len(text) - Len(line)) :
        /\ SubSeq(text, o + 1, o + Len(line)) = line
        /\ o = 0 \/ (o >= 2 /\ SubSeq(text, o - 1, o) = <<13, 10>>)
        /\ \/ o + Len(line) = Len(text)
           \/ /\ o + Len(line) + 2 <= Len(text)
              /\ SubSeq(text, o + Len(line) + 1, o + Len(line) + 2) = <<13, 10>>

(***************************************************************************)
(* C6: grid positions are ordered by column and, for one column, by the    *)
(* row as a number, never by their text: every position set of the         *)
(* grouping and every TwoRect is in that order, so a street holding        *)
(* exactly A2 and A10 is TwoRect(A2, A10) and its line ends in "A2-A10".   *)
(***************************************************************************)
C6_RowsComparedAsNumbers ==
    LET A2  == [column |-> <<65>>, row |-> 2]
        A10 == [column |-> <<65>>, row |-> 10]
    IN  /\ \A i \in 1..Len(roads) : \A j, k \in 1..Len(roads[i].value) :
              j < k => PosLess(roads[i].value[j], roads[i].value[k])
        /\ \A j \in 1..Len(processed) :
              processed[j].position[1] = "TwoRect" =>
                  PosLess(processed[j].position[2], processed[j].position[3])
        /\ \A n \in InputNames(streets) :
              (pc = "processed" /\ InputPositions(streets, n) = {A2, A10}) =>
                  /\ \E j \in 1..Len(processed) :
                        processed[j] = [name |-> n, position |-> << "TwoRect", A2, A10 >>]
                  /\ doneP => HasLine(csvP, n \o delimP \o <<65, 50, 45, 65, 49, 48>>)

C6_Witness ==
    /\ pc = "processed" /\ doneP
    /\ Len(streets) = 2
    /\ streets[1] = [street_name |-> <<97>>, position |-> [column |-> <<65>>, row |-> 10]]
    /\ streets[2] = [street_name |-> <<97>>, position |-> [column |-> <<65>>, row |-> 2]]
    /\ csvP = <<97>> \o delimP \o <<65, 50, 45, 65, 49, 48>>

\* the text of SingleRect(p) or TwoRect(a, b)
FinalizedText(f) ==
    IF f[1] = "SingleRect" THEN PositionText(f[2])
    ELSE PositionText(f[2]) \o <<45>> \o PositionText(f[3])

\* name, delimiter, position text
ProcessedLine(r, d) == r.name \o d \o FinalizedText(r.position)

\* name, then every position preceded by the delimiter
UnprocessedLine(r, d) ==
    r.name \o Concat([j \in 1..Len(r.positions) |-> d \o PositionText(r.positions[j])])

RECURSIVE LineStart(_, _, _)
LineStart(rs, d, i) ==
    IF i = 1 THEN 0
    ELSE LineStart(rs, d, i - 1) + Len(ProcessedLine(rs[i - 1], d)) + 2

(***************************************************************************)
(* C8: the line of a processed road is its street name, the caller's       *)
(* delimiter, then the position text: column label and row number for      *)
(* SingleRect, the two such texts with a hyphen between for TwoRect        *)
(* (A9 and I5 give "A9-I5").                                               *)
(***************************************************************************)
C8_ProcessedLine ==
    LET A9 == [column |-> <<65>>, row |-> 9]
        I5 == [column |-> <<73>>, row |-> 5]
    IN  /\ DisplayGridPosition(A9) = <<65, 57>>
        /\ DisplayFinalizedGridPositon(TwoRect(A9, I5)) = <<65, 57, 45, 73, 53>>
        /\ doneP =>
              \A i \in 1..Len(processed) :
                  LET o    == LineStart(processed, delimP, i)
                      line == ProcessedLine(processed[i], delimP)
                  IN  /\ o + Len(line) <= Len(csvP)
                      /\ SubSeq(csvP, o + 1, o + Len(line)) = line

C8_Witness ==
    /\ doneP
    /\ delimP = <<59, 32>>
    /\ Len(processed) = 2
    /\ processed[1].position = << "SingleRect", [column |-> <<73>>, row |-> 5] >>
    /\ processed[2].position = << "TwoRect", [column |-> <<65>>, row |-> 9],
                                             [column |-> <<73>>, row |-> 5] >>
    /\ csvP = processed[1].name \o <<59, 32, 73, 53, 13, 10>>
              \o processed[2].name \o <<59, 32, 65, 57, 45, 73, 53>>

\* the street names of the input that have three or more distinct positions
ManyPositions(s) == { n \in InputNames(s) : Cardinality(InputPositions(s, n)) >= 3 }

\* "Valley View Road" at A4, A5, B6
ValleyViewRoad ==
    LET name == <<86, 97, 108, 108, 101, 121, 32, 86, 105, 101, 119, 32, 82, 111, 97, 100>>
    IN  << [street_name |-> name, position |-> [column |-> <<65>>, row |-> 4]],
           [street_name |-> name, position |-> [column |-> <<65>>, row |-> 5]],
           [street_name |-> name, position |-> [column |-> <<66>>, row |-> 6]] >>

\* the rendering of that input with a tab is "Valley View Road\tA4\tA5\tB6"
ValleyViewRoadExample ==
    UnprocessedToCsv(Process(FromStreets(ValleyViewRoad)).unprocessed, <<9>>)
      = ValleyViewRoad[1].street_name \o <<9, 65, 52, 9, 65, 53, 9, 66, 54>>

(***************************************************************************)
(* C9: a street with three or more distinct positions in the input is one  *)
(* line of the unprocessed text: its name, then each of its positions in   *)
(* ascending order, each on its own after the caller's delimiter, with no  *)
(* hyphen ("Valley View Road" at A4, A5, B6 with a tab gives               *)
(* "Valley View Road\tA4\tA5\tB6").                                        *)
(***************************************************************************)
C9_UnprocessedLine ==
    /\ ValleyViewRoadExample
    /\ (pc = "processed" /\ doneU) =>
          LET names == AscendingNames(ManyPositions(streets))
              line(n) == LET ps == AscendingPositions(InputPositions(streets, n))
                         IN  n \o Concat([j \in 1..Len(ps) |->
                                            delimU \o PositionText(ps[j])])
          IN  /\ csvU = LinesText([i \in 1..Len(names) |-> line(names[i])])
              /\ \A k \in 1..Len(csvU) : csvU[k] # 45

C9_Witness ==
    /\ pc = "processed" /\ doneU
    /\ delimU = <<59, 32>>
    /\ Len(streets) = 3
    /\ streets[1].position = [column |-> <<73>>, row |-> 5]
    /\ streets[2].position = [column |-> <<65>>, row |-> 10]
    /\ streets[3].position = [column |-> <<65>>, row |-> 2]
    /\ csvU = <<66, 97>> \o <<59, 32, 65, 50>> \o <<59, 32, 65, 49, 48>> \o <<59, 32, 73, 53>>

(***************************************************************************)
(* C10: after every iteration of the loop of from_streets, and so in the   *)
(* returned grouping, every key has a position; so every street name of    *)
(* the input is in exactly one of the two results of process(), once, and  *)
(* an empty input gives an empty grouping, two empty results and two empty *)
(* texts.                                                                  *)
(***************************************************************************)
C10_NoEmptySet ==
    /\ \A i \in 1..Len(roads) : roads[i].value # <<>>
    /\ pc = "processed" =>
          \A n \in InputNames(streets) :
              Occurrences(processed, n) + Occurrences(unprocessed, n) = 1
    /\ streets = <<>> =>
          /\ roads = <<>> /\ processed = <<>> /\ unprocessed = <<>>
          /\ csvP = <<>> /\ csvU = <<>>

C10_Witness ==
    /\ pc = "processed"
    /\ Len(streets) = 3
    /\ Cardinality(InputNames(streets)) = 2
    /\ Len(processed) = 2
    /\ unprocessed = <<>>
====
